---- MODULE Spec2Model ----
(***************************************************************************)
(* Model of the aoc-rs puzzle client (src/src/lib.rs): Puzzle instances    *)
(* created from one AocApi session, their in-memory input cache, the       *)
(* on-disk cache under the directory "input", and the classification of    *)
(* the answer-submission response.                                         *)
(*                                                                         *)
(* Texts are sequences of tokens; a token is an indivisible piece of text, *)
(* so a substring search is a search for a contiguous run of tokens.       *)
(* A PuzzleInput is an opaque text, identified by a number in 1..NumInputs;*)
(* 0 stands for None (Option) and for a failed read (Result::Err).         *)
(***************************************************************************)
EXTENDS Integers, Sequences, FiniteSets, TLC

\* ------------------------------------------------------------------ bounds
\* number of distinct puzzle input texts the server or the disk may hold
NumInputs == 2
\* longest response body (in tokens) submit receives in the lifecycle model
MainBodyLen == 1
\* longest text (in tokens) in the text-classification model
MaxBodyLen == 4

\* ------------------------------------------------------------- vocabulary
None == 0
Inputs == 1..NumInputs
\* content of a file that std::fs::read_to_string cannot read (not UTF-8)
Unreadable == -1

NotRight == "That's not the right answer."
PleaseWait == "Please wait "
Minute == " minute"
Second == " second"
Tokens == {NotRight, PleaseWait, "one", "2", "5", Minute, Second, "s", "x"}
\* the pages of the lifecycle model: what matters there is only whether the
\* page carries the wrong-answer phrase
PageTokens == {NotRight, "x"}

TextsUpTo(T, n) == UNION {[1..k -> T] : k \in 0..n}

\* the two Puzzle instances created from the session
Inst == {1, 2}

\* (year, day) pairs a caller passes to AocApi::puzzle; both are arbitrary
\* strings, here token sequences
Keys ==
    { <<<<"2017">>, <<"1">>>>,
      <<<<"2017">>, <<"1", "-", "1">>>>,
      <<<<"2017", "-", "1">>, <<"1">>>> }

\* mutant: the day is left out of the file name
InputPath_YearOnly(year, day) == year \o <<".txt">>

\* format!{"{}-{}.txt", year, day} joined to the directory "input"
InputPath(year, day) == year \o <<"-">> \o day \o <<".txt">>

Paths == {InputPath(k[1], k[2]) : k \in Keys}

VARIABLES
    year,       \* year[p]: Puzzle.year
    day,        \* day[p]: Puzzle.day
    input,      \* input[p]: Puzzle.input, None or an input text
    dirExists,  \* whether the directory "input" exists
    files,      \* files[path]: None (no file), Unreadable, or its content
    pc,         \* pc[p]: position of instance p inside save_input_to_disk
    last        \* record of the call that completed last

vars == <<year, day, input, dirExists, files, pc, last>>

\* ------------------------------------------------------------ transport
\* What the HTTP client gives back for one request: send() failed
\* ("senderr"), a status arrived but reading the body failed ("nobody"),
\* or status and body arrived ("resp").  text is the body of a GET (an input
\* text), body the body of a POST (a page, as tokens).
Resp(kind, success, text, body) ==
    [kind |-> kind, success |-> success, text |-> text, body |-> body]

GetResponses ==
    {Resp("senderr", FALSE, None, <<>>)}
    \cup {Resp("nobody", s, None, <<>>) : s \in BOOLEAN}
    \cup {Resp("resp", s, t, <<>>) : s \in BOOLEAN, t \in Inputs}

PostResponses(T, n) ==
    {Resp("senderr", FALSE, None, <<>>)}
    \cup {Resp("nobody", s, None, <<>>) : s \in BOOLEAN}
    \cup {Resp("resp", s, None, b) : s \in BOOLEAN, b \in TextsUpTo(T, n)}

NoResp == Resp("none", FALSE, None, <<>>)

\* ------------------------------------------------------------- results
\* tag: "Ok", "WrongAnswer", "Err" or "Panic"; val: the PuzzleInput of
\* Ok (fetch_input) or the seconds of WrongAnswer(WaitTime); err: "reason"
\* (FetchInputError::Reason), "transport" (reqwest error), "io"
\* (std::io::Error); errText / errBody: the text FetchInputError carries.
Result(tag, val, err, errText, errBody) ==
    [tag |-> tag, val |-> val, err |-> err, errText |-> errText, errBody |-> errBody]

Ok(val) == Result("Ok", val, "none", None, <<>>)
ErrTransport == Result("Err", 0, "transport", None, <<>>)
ErrIo == Result("Err", 0, "io", None, <<>>)
Panic == Result("Panic", 0, "none", None, <<>>)
NoResult == Result("none", 0, "none", None, <<>>)

Last(op, p, before, diskRes, resp, requests, text, res) ==
    [op |-> op, p |-> p, before |-> before, diskRes |-> diskRes, resp |-> resp,
     requests |-> requests, text |-> text, res |-> res]

\* ------------------------------------------------------------ fetch_input
\* PuzzleInput::try_from_disk: read_to_string of the path; None is Err
try_from_disk(path) ==
    IF dirExists /\ files[path] \in Inputs THEN files[path] ELSE None

\* mutant: the file is looked up in a directory other than the one
\* save_input_to_disk writes to, where there is none
read_input_from_disk_OtherDir(p) == None

\* read_input_from_disk("input"): the same file name as save_input_to_disk
read_input_from_disk(p) == try_from_disk(InputPath(year[p], day[p]))

\* download_input, given the transport's answer to its GET
download_input(resp) ==
    IF resp.kind = "senderr" THEN ErrTransport
    ELSE IF ~resp.success
         THEN IF resp.kind = "resp"
              THEN Result("Err", 0, "reason", resp.text, <<>>)
              ELSE ErrTransport
    ELSE IF resp.kind = "resp" THEN Ok(resp.text)
    ELSE ErrTransport

\* mutant: the disk cache is skipped, the download is taken on a memory miss
ResolveInput_SkipDisk(cached, diskRes, downloaded) ==
    IF cached # None THEN cached ELSE downloaded

\* mutant: the in-memory cache is not consulted, every call resolves afresh
ResolveInput_Refetch(cached, diskRes, downloaded) ==
    IF diskRes # None THEN diskRes ELSE downloaded

\* self.input.as_ref().unwrap_or(&read_input_from_disk(..).unwrap_or(downloaded))
ResolveInput(cached, diskRes, downloaded) ==
    IF cached # None THEN cached
    ELSE IF diskRes # None THEN diskRes
    ELSE downloaded

\* Requests download_input has sent by the time fetch_input's expression is
\* evaluated: the argument of unwrap_or is evaluated before unwrap_or runs,
\* whatever the cache and the disk hold.
FetchRequests(cached, diskRes) == 1

\* mutant: a failed download drops the cached input
CacheAfterFetch_ClearOnError(cached, dl, value) ==
    IF dl.tag # "Ok" THEN None ELSE value

\* Puzzle.input after the call: `?` returns before the assignment
\* `self.input = Some(input)` when the download failed
CacheAfterFetch(cached, dl, value) ==
    IF dl.tag # "Ok" THEN cached ELSE value

\* what fetch_input does to the instance and what it returns, given the
\* transport's answer to the GET of download_input
FetchCore(p, resp) ==
    LET cached == input[p]
        diskRes == read_input_from_disk(p)
        dl == download_input(resp)
        value == ResolveInput(cached, diskRes, dl.val)
    IN  /\ input' = [input EXCEPT ![p] = CacheAfterFetch(cached, dl, value)]
        /\ last' = Last("fetch_input", p, cached, diskRes, resp,
                        FetchRequests(cached, diskRes), <<>>,
                        IF dl.tag # "Ok" THEN dl ELSE Ok(value))

\* mutant: a downloaded input is written to the cache file at once
FetchInputWith_AutoSave(p, resp) ==
    /\ pc[p] = "idle"
    /\ FetchCore(p, resp)
    /\ LET dl == download_input(resp)
           path == InputPath(year[p], day[p])
       IN  IF dl.tag = "Ok" /\ input[p] = None /\ read_input_from_disk(p) = None
           THEN dirExists' = TRUE /\ files' = [files EXCEPT ![path] = dl.val]
           ELSE UNCHANGED <<dirExists, files>>
    /\ UNCHANGED <<year, day, pc>>

\* fetch_input takes &mut self: no other call on the instance is in flight.
\* The disk read happens before the request is sent; the steps after it
\* touch only the instance, so the call is one step.
FetchInputWith(p, resp) ==
    /\ pc[p] = "idle"
    /\ FetchCore(p, resp)
    /\ UNCHANGED <<year, day, dirExists, files, pc>>

FetchInput(p) == \E resp \in GetResponses : FetchInputWith(p, resp)

\* ----------------------------------------------------- save_input_to_disk
\* save_input_to_disk takes &self and is three file-system steps, between
\* which other instances (and other programs) act.
\* mutant: the directory is created without looking whether it exists
SaveCheckDir_AlwaysCreate(p) ==
    /\ pc[p] = "idle"
    /\ pc' = [pc EXCEPT ![p] = "create"]
    /\ UNCHANGED <<year, day, input, dirExists, files, last>>

\* `if !input_dir.exists()`
SaveCheckDir(p) ==
    /\ pc[p] = "idle"
    /\ pc' = [pc EXCEPT ![p] = IF dirExists THEN "write" ELSE "create"]
    /\ UNCHANGED <<year, day, input, dirExists, files, last>>

\* `std::fs::create_dir(input_dir)?`: fails when the directory exists by now
SaveCreateDir(p) ==
    /\ pc[p] = "create"
    /\ IF dirExists
       THEN /\ pc' = [pc EXCEPT ![p] = "idle"]
            /\ last' = Last("save_input_to_disk", p, input[p], None, NoResp, 0, <<>>, ErrIo)
            /\ UNCHANGED dirExists
       ELSE /\ pc' = [pc EXCEPT ![p] = "write"]
            /\ dirExists' = TRUE
            /\ UNCHANGED last
    /\ UNCHANGED <<year, day, input, files>>

\* what `self.input.as_ref().unwrap()` and std::fs::write give, by the cache
SaveWriteResult(cached) == IF cached = None THEN Panic ELSE Ok(0)

\* mutant: an existing file is kept (create-new instead of create-or-truncate)
fs_write_KeepExisting(fs, path, text) ==
    IF fs[path] # None THEN fs ELSE [fs EXCEPT ![path] = text]

\* std::fs::write: the file is created or truncated, text is its whole content
fs_write(fs, path, text) == [fs EXCEPT ![path] = text]

\* `Ok(std::fs::write(input_path, self.input.as_ref().unwrap().clone().str)?)`
\* The directory is never removed here, so the write itself succeeds.
SaveWrite(p) ==
    /\ pc[p] = "write"
    /\ pc' = [pc EXCEPT ![p] = "idle"]
    /\ LET res == SaveWriteResult(input[p])
       IN  /\ last' = Last("save_input_to_disk", p, input[p], None, NoResp, 0, <<>>, res)
           /\ files' = IF res.tag = "Ok"
                       THEN fs_write(files, InputPath(year[p], day[p]), input[p])
                       ELSE files
    /\ UNCHANGED <<year, day, input, dirExists>>

\* ------------------------------------------------------------------ submit
\* str::contains: pat occurs in s as a contiguous run
contains(s, pat) ==
    \E i \in 0..(Len(s) - Len(pat)) : SubSeq(s, i + 1, i + Len(pat)) = pat

\* Regex "Please wait (.*) (minute|second)": positions <<i, j>> of the
\* leftmost match, i at "Please wait " and j at the " minute" / " second"
\* that ends it; `.*` is greedy, so j is the last one the text allows.
\* <<0, 0>> when the pattern does not match.  The texts here hold no line
\* break, so `.` matches every token.
RegexFind(text) ==
    LET units == {j \in 1..Len(text) : text[j] \in {Minute, Second}}
        starts == {i \in 1..Len(text) :
                     text[i] = PleaseWait /\ \E j \in units : j > i}
    IN  IF starts = {} THEN <<0, 0>>
        ELSE LET i == CHOOSE x \in starts : \A y \in starts : x <= y
                 j == CHOOSE x \in units : \A y \in units : y <= x
             IN  <<i, j>>

\* the word the group (minute|second) captures from a unit token
UnitStem(tok) == IF tok = Minute THEN "minute" ELSE "second"

\* captures of the pattern on a text: tag "Captures" with the first group
\* in errBody and the second in err, or tag "NoMatch"
RegexCaptures(text) ==
    LET m == RegexFind(text)
    IN  IF m = <<0, 0>>
        THEN Result("NoMatch", 0, "none", None, <<>>)
        ELSE Result("Captures", 0, UnitStem(text[m[2]]), None,
                    SubSeq(text, m[1] + 1, m[2] - 1))

\* quantity of a wait phrase: "one" or an integer literal; -1 otherwise
Quantity(q) ==
    IF q = <<"one">> THEN 1
    ELSE IF q = <<"2">> THEN 2
    ELSE IF q = <<"5">> THEN 5
    ELSE -1

\* mutant: the phrase is parsed and a parse failure is returned as an error
WrongAnswerResponse_Propagate(body) ==
    LET m == RegexFind(body)
        q == IF m = <<0, 0>> THEN -1 ELSE Quantity(SubSeq(body, m[1] + 1, m[2] - 1))
    IN  IF q = -1
        THEN Result("Err", 0, "parse", None, <<>>)
        ELSE Result("WrongAnswer", q * (IF body[m[2]] = Minute THEN 60 ELSE 1),
                    "none", None, <<>>)

\* the branch taken when the page says the answer is wrong: the regex is
\* built, nothing is captured, and the wait time is the constant 0
WrongAnswerResponse(body) == Result("WrongAnswer", 0, "none", None, <<>>)

\* mutant: the page is classified before the status is looked at
submit_PhraseFirst(resp) ==
    IF resp.kind = "senderr" THEN ErrTransport
    ELSE IF resp.kind # "resp" THEN ErrTransport
    ELSE IF contains(resp.body, <<NotRight>>) THEN WrongAnswerResponse(resp.body)
    ELSE IF ~resp.success THEN Result("Err", 0, "reason", None, resp.body)
    ELSE Ok(0)

\* submit, given the transport's answer to its POST
submit(resp) ==
    IF resp.kind = "senderr" THEN ErrTransport
    ELSE IF ~resp.success
         THEN IF resp.kind = "resp"
              THEN Result("Err", 0, "reason", None, resp.body)
              ELSE ErrTransport
    ELSE IF resp.kind # "resp" THEN ErrTransport
    ELSE IF contains(resp.body, <<NotRight>>) THEN WrongAnswerResponse(resp.body)
    ELSE Ok(0)

\* mutant: the POST is sent again after the first answer
SubmitRequests_Retry == 1 + 1

\* requests one submit call sends: one POST, no retry
SubmitRequests == 1

\* format!("https://adventofcode.com/{}/day/{}/answer", year, day)
SubmitUrl(p) ==
    <<"https://adventofcode.com/">> \o year[p] \o <<"/day/">> \o day[p] \o <<"/answer">>

\* submit takes &self and changes nothing but the network
Submit(p, resp) ==
    /\ last' = Last("submit", p, input[p], None, resp, SubmitRequests, SubmitUrl(p),
                    submit(resp))
    /\ UNCHANGED <<year, day, input, dirExists, files, pc>>

\* ---------------------------------------------------------------- WaitTime
\* The only conversion of a text to a WaitTime in the source is the
\* commented-out TryFrom stub, which answers Ok(WaitTime(0)) for any text.
WaitTime_try_from(value) == Ok(0)

TryFrom(text) ==
    /\ last' = Last("try_from", 0, None, None, NoResp, 0, text, WaitTime_try_from(text))
    /\ UNCHANGED <<year, day, input, dirExists, files, pc>>

\* the pattern applied to a text, as re.captures_iter does for its first match
Captures(text) ==
    /\ last' = Last("captures", 0, None, None, NoResp, 0, text, RegexCaptures(text))
    /\ UNCHANGED <<year, day, input, dirExists, files, pc>>

\* ------------------------------------------------------------ environment
\* Another program creates the directory, or creates, replaces, corrupts or
\* removes a cache file.
EnvMkdir ==
    /\ ~dirExists
    /\ dirExists' = TRUE
    /\ UNCHANGED <<year, day, input, files, pc, last>>

EnvSetFile(path, v) ==
    /\ dirExists
    /\ files[path] # v
    /\ files' = [files EXCEPT ![path] = v]
    /\ UNCHANGED <<year, day, input, dirExists, pc, last>>

\* ------------------------------------------------------------------ spec
\* One Puzzle instance (instance 1) and the rest of the world: whatever
\* another instance or program does to the cache directory is an Env step.
Init ==
    /\ \E k \in Keys : /\ year = [p \in Inst |-> k[1]]
                       /\ day = [p \in Inst |-> k[2]]
    /\ input = [p \in Inst |-> None]
    /\ dirExists = FALSE
    /\ files = [path \in Paths |-> None]
    /\ pc = [p \in Inst |-> "idle"]
    /\ last = Last("none", 0, None, None, NoResp, 0, <<>>, NoResult)

Env ==
    \/ EnvMkdir
    \/ \E path \in Paths, v \in Inputs \cup {None, Unreadable} : EnvSetFile(path, v)

Calls(p) ==
    \/ FetchInput(p)
    \/ SaveCheckDir(p)
    \/ SaveCreateDir(p)
    \/ SaveWrite(p)
    \/ \E resp \in PostResponses(PageTokens, MainBodyLen) : Submit(p, resp)

Next == Calls(1) \/ Env

Spec == Init /\ [][Next]_vars

\* ------------------------------------------------------ one instance alone
\* The instance is the only one that creates the directory: the file system
\* is in any state when the instance is made, and afterwards other programs
\* only change files.
InitSolo ==
    /\ \E k \in Keys : /\ year = [p \in Inst |-> k[1]]
                       /\ day = [p \in Inst |-> k[2]]
    /\ input = [p \in Inst |-> None]
    /\ dirExists \in BOOLEAN
    /\ files \in [Paths -> Inputs \cup {None, Unreadable}]
    /\ ~dirExists => files = [path \in Paths |-> None]
    /\ pc = [p \in Inst |-> "idle"]
    /\ last = Last("none", 0, None, None, NoResp, 0, <<>>, NoResult)

NextSolo ==
    \/ Calls(1)
    \/ \E path \in Paths, v \in Inputs \cup {None, Unreadable} : EnvSetFile(path, v)

SpecSolo == InitSolo /\ [][NextSolo]_vars

\* ------------------------------------------------------- two instances
\* Two Puzzle instances of different (year, day) made from one session, on
\* threads of their own, with the cache directory to themselves.  The
\* server holds input p for the puzzle of instance p.
InitTwo ==
    /\ \E k1 \in Keys : \E k2 \in Keys \ {k1} :
          /\ year = [p \in Inst |-> IF p = 1 THEN k1[1] ELSE k2[1]]
          /\ day = [p \in Inst |-> IF p = 1 THEN k1[2] ELSE k2[2]]
    /\ input = [p \in Inst |-> None]
    /\ dirExists = FALSE
    /\ files = [path \in Paths |-> None]
    /\ pc = [p \in Inst |-> "idle"]
    /\ last = Last("none", 0, None, None, NoResp, 0, <<>>, NoResult)

\* answers to GET https://adventofcode.com/<year>/day/<day>/input of p
ServerResponses(p) == {r \in GetResponses : r.kind = "resp" => r.text = p}

NextTwo ==
    \E p \in Inst :
        \/ \E resp \in ServerResponses(p) : FetchInputWith(p, resp)
        \/ SaveCheckDir(p)
        \/ SaveCreateDir(p)
        \/ SaveWrite(p)

SpecTwo == InitTwo /\ [][NextTwo]_vars

\* ------------------------------------------------- text classification
\* submit and the WaitTime conversion are functions of the text they are
\* given: here Init draws one call with its text, and the step applies it.
InitText ==
    /\ year = [p \in Inst |-> <<"2017">>]
    /\ day = [p \in Inst |-> <<"1">>]
    /\ input = [p \in Inst |-> None]
    /\ dirExists = FALSE
    /\ files = [path \in Paths |-> None]
    /\ pc = [p \in Inst |-> "idle"]
    /\ \/ \E resp \in PostResponses(Tokens, MaxBodyLen) :
            last = Last("call_submit", 1, None, None, resp, 0, <<>>, NoResult)
       \/ \E text \in TextsUpTo(Tokens, MaxBodyLen) :
            last = Last("call_try_from", 0, None, None, NoResp, 0, text, NoResult)
       \/ \E text \in TextsUpTo(Tokens, MaxBodyLen) :
            last = Last("call_captures", 0, None, None, NoResp, 0, text, NoResult)

NextText ==
    \/ last.op = "call_submit" /\ Submit(last.p, last.resp)
    \/ last.op = "call_try_from" /\ TryFrom(last.text)
    \/ last.op = "call_captures" /\ Captures(last.text)

SpecText == InitText /\ [][NextText]_vars

\* ================================================================ claims
FetchDone == last.op = "fetch_input"
SaveDone == last.op = "save_input_to_disk"
SubmitDone == last.op = "submit"
DownloadFailed(resp) == resp.kind # "resp" \/ ~resp.success
\* the page a successful POST returned
PageArrived == SubmitDone /\ last.resp.kind = "resp" /\ last.resp.success
HasNotRight(body) == \E i \in 1..Len(body) : body[i] = NotRight
\* a "Please wait <quantity> <unit>" phrase is found by the pattern and its
\* quantity is "one" or an integer
WaitPhraseParsed(body) ==
    LET m == RegexFind(body)
    IN  m # <<0, 0>> /\ Quantity(SubSeq(body, m[1] + 1, m[2] - 1)) # -1

\* C1: once the in-memory cache of an instance is populated (a fetch_input
\* succeeded), a fetch_input call on it sends no request and returns the
\* cached input.
C1_CacheIdempotence ==
    (FetchDone /\ last.before # None)
        => (last.requests = 0 /\ last.res = Ok(last.before))

\* C2: with an empty in-memory cache, a readable disk file and a transport
\* that fails, fetch_input returns the file's content and sends no request.
C2_DiskBeforeNetwork ==
    (FetchDone /\ last.before = None /\ last.diskRes # None
        /\ DownloadFailed(last.resp))
        => (last.res = Ok(last.diskRes) /\ last.requests = 0)

\* C3: fetch_input returns an error only when the download failed and
\* neither the in-memory cache nor the disk file gave a hit.
C3_ErrorOnlyWithoutCacheHit ==
    (FetchDone /\ last.res.tag = "Err")
        => (DownloadFailed(last.resp) /\ last.before = None /\ last.diskRes = None)

\* C4: a successful fetch_input returns the cached input if there is one,
\* else the content of the readable disk file of (year, day), else the body
\* of the download; and the in-memory cache holds that value afterwards.
C4_Step ==
    (last' # last /\ last'.op = "fetch_input" /\ last'.res.tag = "Ok")
        => LET p == last'.p
               path == InputPath(year[p], day[p])
               readable == dirExists /\ files[path] \in Inputs
               expected == IF input[p] # None THEN input[p]
                           ELSE IF readable THEN files[path]
                           ELSE last'.resp.text
           IN  /\ last'.res.val = expected
               /\ input'[p] = expected

\* C4: the resolution order above holds of every step of every behaviour.
C4_ResolutionOrder == [][C4_Step]_vars

\* a fetch_input with an empty cache took the disk file although the
\* server offered a different input
C4_Witness ==
    /\ FetchDone /\ last.res.tag = "Ok"
    /\ last.before = None /\ last.diskRes # None
    /\ last.resp.kind = "resp" /\ last.resp.text # last.diskRes
    /\ input[last.p] = last.diskRes

\* C5: once populated, the in-memory cache never becomes empty again and
\* never changes its value.
C5_CacheWrittenOnce ==
    [][\A p \in Inst : input[p] # None => input'[p] = input[p]]_vars

\* a fetch_input completed on a populated cache while the server and the
\* disk both offered another input
C5_Witness ==
    /\ FetchDone /\ last.res.tag = "Ok"
    /\ last.before # None
    /\ last.resp.text # last.before
    /\ last.diskRes \notin {None, last.before}
    /\ input[last.p] = last.before

\* C6: save_input_to_disk on an empty in-memory cache returns an error
\* value; it does not panic.
C6_SaveOnEmptyIsCheckedError ==
    (SaveDone /\ last.before = None) => last.res.tag = "Err"

\* C7: submit classifies (status, body) in this order: non-success status
\* gives an error carrying the body, whatever the body says; success with
\* the wrong-answer phrase gives WrongAnswer; success otherwise gives Ok.
C7_Classification ==
    (SubmitDone /\ last.resp.kind = "resp")
        => IF ~last.resp.success
           THEN /\ last.res.tag = "Err"
                /\ last.res.err = "reason"
                /\ last.res.errBody = last.resp.body
           ELSE IF HasNotRight(last.resp.body)
           THEN last.res.tag = "WrongAnswer"
           ELSE last.res = Ok(0)

\* a non-success status with a page that carries the wrong-answer phrase
C7_Witness ==
    /\ SubmitDone /\ last.resp.kind = "resp" /\ ~last.resp.success
    /\ HasNotRight(last.resp.body)
    /\ last.res.tag = "Err"

\* C8: on a wrong-answer page with a phrase "Please wait <quantity> <unit>"
\* the wait time is the quantity times 60 for minutes, times 1 for seconds
\* ("Please wait one minute" gives 60).
C8_WaitTimeFromPage ==
    \A i \in 1..(Len(last.resp.body) - 2) :
        LET body == last.resp.body
        IN  (/\ PageArrived /\ HasNotRight(body)
             /\ body[i] = PleaseWait
             /\ \A k \in 1..(i - 1) : body[k] # PleaseWait
             /\ Quantity(<<body[i + 1]>>) # -1
             /\ body[i + 2] \in {Minute, Second})
            => /\ last.res.tag = "WrongAnswer"
               /\ last.res.val = Quantity(<<body[i + 1]>>)
                                   * (IF body[i + 2] = Minute THEN 60 ELSE 1)

\* C9: on a wrong-answer page in which no wait phrase is found or parsed,
\* submit returns WrongAnswer with wait time 0, not an error.
C9_NoPhraseGivesZero ==
    (PageArrived /\ HasNotRight(last.resp.body) /\ ~WaitPhraseParsed(last.resp.body))
        => (last.res.tag = "WrongAnswer" /\ last.res.val = 0)

\* a wrong-answer page with "Please wait " whose quantity does not parse
C9_Witness ==
    /\ PageArrived /\ HasNotRight(last.resp.body)
    /\ \E i \in 1..Len(last.resp.body) : last.resp.body[i] = PleaseWait
    /\ RegexFind(last.resp.body) # <<0, 0>>
    /\ ~WaitPhraseParsed(last.resp.body)
    /\ last.res.tag = "WrongAnswer" /\ last.res.val = 0

\* C10: WaitTime::try_from gives 60 for "one minute", 300 for "5 minutes",
\* 1 for "one second", 2 for "2 seconds", and fails for "invalid".
C10_WaitTimeParsing ==
    last.op = "try_from"
        => /\ last.text = <<"one", Minute>> => last.res = Ok(60)
           /\ last.text = <<"5", Minute, "s">> => last.res = Ok(300)
           /\ last.text = <<"one", Second>> => last.res = Ok(1)
           /\ last.text = <<"2", Second, "s">> => last.res = Ok(2)
           /\ last.text = <<"x">> => last.res.tag = "Err"

\* the step that completes a save_input_to_disk call of p by its write
SaveWriteStep(p) == pc[p] = "write" /\ pc'[p] = "idle" /\ last'.res.tag = "Ok"
\* input/<year>-<day>.txt, written out
FileName(p) == year[p] \o <<"-">> \o day[p] \o <<".txt">>

\* C11: a successful save_input_to_disk leaves input/<year>-<day>.txt
\* (2017-1.txt for year "2017", day "1") holding exactly the cached input,
\* whatever it held before, and changes no other file.
C11_SaveWritesOwnFile ==
    [][\A p \in Inst :
         SaveWriteStep(p)
             => /\ input[p] # None
                /\ dirExists'
                /\ files'[FileName(p)] = input[p]
                /\ (year[p] = <<"2017">> /\ day[p] = <<"1">>)
                       => files'[<<"2017", "-", "1", ".txt">>] = input[p]
                /\ \A path \in Paths \ {FileName(p)} : files'[path] = files[path]]_vars

\* a save succeeded next to another cache file with a different content
C11_Witness ==
    /\ SaveDone /\ last.res.tag = "Ok"
    /\ files[FileName(last.p)] = input[last.p]
    /\ \E path \in Paths \ {FileName(last.p)} :
           files[path] \in Inputs \ {input[last.p]}

\* C12: after a successful save_input_to_disk of cached input X, the disk
\* read fetch_input performs on any instance of the same (year, day) gives X.
C12_SaveLoadRoundTrip ==
    [][\A p \in Inst :
         SaveWriteStep(p)
             => \A q \in Inst :
                    (year[q] = year[p] /\ day[q] = day[p])
                        => read_input_from_disk(q)' = input[p]]_vars

\* instance 1 saved, and the fresh instance 2 of the same (year, day) reads
\* that input from the disk
C12_Witness ==
    /\ SaveDone /\ last.p = 1 /\ last.res.tag = "Ok"
    /\ input[2] = None /\ year[2] = year[1] /\ day[2] = day[1]
    /\ read_input_from_disk(2) = input[1]
    /\ input[1] # None

\* C13: with a populated cache, every save_input_to_disk call of a sequence
\* succeeds, whether the directory existed before it or not.
C13_RepeatedSaveSucceeds ==
    (SaveDone /\ last.before # None) => last.res.tag = "Ok"

\* a save succeeded and the next one has found the directory in place
C13_Witness ==
    /\ SaveDone /\ last.before # None /\ last.res.tag = "Ok"
    /\ dirExists /\ pc[last.p] = "write"

\* C14: a fetch_input or submit call changes neither the cache directory
\* nor any cache file.
C14_NoAutomaticPersistence ==
    [][(last' # last /\ last'.op \in {"fetch_input", "submit"})
           => (dirExists' = dirExists /\ files' = files)]_vars

\* fetch_input took its input from the network and the disk holds nothing
C14_Witness ==
    /\ FetchDone /\ last.res.tag = "Ok"
    /\ last.before = None /\ last.diskRes = None
    /\ input[last.p] = last.resp.text
    /\ ~dirExists /\ \A path \in Paths : files[path] = None

\* C15: a submit call sends exactly one request, a POST to the answer URL
\* of the puzzle's own year and day, whatever the outcome, and leaves the
\* in-memory cache and the disk cache as they were.
C15_SubmitOneRequest ==
    [][(last' # last /\ last'.op = "submit")
           => /\ last'.requests = 1
              /\ last'.text = <<"https://adventofcode.com/">> \o year[last'.p]
                                \o <<"/day/">> \o day[last'.p] \o <<"/answer">>
              /\ input' = input
              /\ dirExists' = dirExists /\ files' = files]_vars

\* a rejected submit on an instance whose input is cached and saved
C15_Witness ==
    /\ SubmitDone /\ last.res.tag = "WrongAnswer" /\ last.requests = 1
    /\ input[last.p] # None
    /\ files[FileName(last.p)] = input[last.p]

\* C17: when fetch_input returns an error the in-memory cache holds what it
\* held before the call.
C17_FetchErrorKeepsCache ==
    (FetchDone /\ last.res.tag = "Err") => input[last.p] = last.before

\* a fetch_input failed on a populated cache, which kept its input
C17_Witness ==
    /\ FetchDone /\ last.res.tag = "Err"
    /\ last.before # None /\ input[last.p] = last.before

\* C18: a save_input_to_disk call on an empty in-memory cache changes
\* nothing in the file system: no step of it creates the directory or a file.
C18_FailedSaveNoEffect ==
    [][\A p \in Inst :
         (input[p] = None /\ pc'[p] # pc[p])
             => (dirExists' = dirExists /\ files' = files)]_vars

\* C16: on any text the pattern captures as quantity exactly the one token
\* after the first "Please wait " ("one" or the integer) and as unit the
\* word right after it, whatever follows later in the text.
C16_CapturesFirstPhrase ==
    \A i \in 1..(Len(last.text) - 2) :
        LET text == last.text
        IN  (/\ last.op = "captures"
             /\ text[i] = PleaseWait
             /\ \A k \in 1..(i - 1) : text[k] # PleaseWait
             /\ Quantity(<<text[i + 1]>>) # -1
             /\ text[i + 2] \in {Minute, Second})
            => /\ last.res.tag = "Captures"
               /\ last.res.errBody = <<text[i + 1]>>
               /\ last.res.err = UnitStem(text[i + 2])

\* what each instance holds and reads is the input of its own puzzle
OwnInputOnly ==
    /\ \A p \in Inst : input[p] \in {None, p}
    /\ FetchDone => /\ last.diskRes \in {None, last.p}
                    /\ last.res.tag = "Ok" => last.res.val = last.p

\* C19: two instances of different (year, day) never read or overwrite each
\* other's cache file, and fetch_input returns only the instance's own input.
C19_Isolation ==
    /\ OwnInputOnly
    /\ \A p \in Inst : files[InputPath(year[p], day[p])] \in {None, p}

\* C19 as amended: the same for two instances whose file names
\* <year>-<day>.txt differ.
C19_IsolationDistinctFiles ==
    FileName(1) # FileName(2) => OwnInputOnly

\* both instances saved under different names and instance 2 read its own
C19_Witness ==
    /\ FileName(1) # FileName(2)
    /\ FetchDone /\ last.p = 2 /\ last.diskRes = 2 /\ last.res = Ok(2)
    /\ files[FileName(1)] = 1 /\ files[FileName(2)] = 2

\* C20: with both caches populated, a save_input_to_disk call of either
\* instance succeeds under every interleaving of the two calls' steps.
C20_ConcurrentSaveSucceeds ==
    (SaveDone /\ input[1] # None /\ input[2] # None) => last.res.tag = "Ok"
====
